---- MODULE Spec2Model ----
(***************************************************************************)
(* Model of the service registry of package discovery (src/api/swagger.go, *)
(* lines 340-677): the map of *ServiceInfo guarded by sr.mu, the           *)
(* RegisterService calls, the read accessors, the probe goroutines         *)
(* (checkServiceHealth) and the background loop (StartHealthChecks /       *)
(* checkAllServices); and of the dashboard's access check                  *)
(* (canAccessService, ServiceCard) and the requireHighTrust middleware.    *)
(***************************************************************************)
EXTENDS Integers, Sequences, FiniteSets, TLC

\* ------------------------------------------------------------------ bounds
\* RegisterService calls issued in one behaviour.
MaxCalls == 2
\* Ticks the ticker of StartHealthChecks delivers in one behaviour.
MaxTicks == 2

\* ------------------------------------------------------------ value domains
\* The nil *ServiceInfo; the pointers are the ids of the calls that passed them.
NilPtr == 0
NoHolder == <<"free", 0, "">>

\* Endpoint lists and metadata carried by the entries (EndpointInfo, Metadata).
EpAudit == << [Path |-> "/api/audit/logs", Method |-> "GET", TrustLevel |-> 50],
              [Path |-> "/api/audit/export", Method |-> "POST", TrustLevel |-> 75] >>
EpNone == << >>

\* The ServiceInfo values a caller passes to RegisterService.  Two are invalid
\* (empty Name, empty URL); two share the name "a" and differ in every other
\* field; one carries a caller-supplied Status, as a JSON body can.
MkInfo(n, u, s, t, eps, md) ==
    [Name |-> n, URL |-> u, Status |-> s, TrustLevel |-> t, Endpoints |-> eps,
     LastChecked |-> 0, Metadata |-> md]

ArgSet ==
    { MkInfo("",  "http://h0", "", 25, EpNone, "m0"),
      MkInfo("a", "",          "", 25, EpNone, "m0"),
      MkInfo("a", "http://a1", "", 25, EpNone, "m1"),
      MkInfo("a", "http://a2", "healthy", 75, EpAudit, "m2"),
      MkInfo("b", "http://b1", "", 50, EpAudit, "m1") }

Names == { e.Name : e \in ArgSet } \ {""}

\* What one GET of <URL>/health ends with: a transport error or timeout (0: no
\* response), or a response with this status code.
Outcomes == {0, 200, 204, 500}

\* Trust levels a caller passes to ListServicesByTrustLevel.
TrustArgs == {24, 25, 50, 75}

CallIds == 1..MaxCalls
\* One probe goroutine per successful RegisterService call and, in the cycle in
\* progress, one per name of checkAllServices.
CallHolder(r) == <<"call", r, "">>
RegProbe(r) == <<"reg", r, "">>
CycProbe(n) == <<"cyc", 0, n>>
ProbeIds == { RegProbe(r) : r \in CallIds } \cup { CycProbe(n) : n \in Names }

VARIABLES
    heap,       \* ObjId -> ServiceInfo: the objects the *ServiceInfo pointers point to
    services,   \* sr.services: name -> pointer (Nil when the key is absent)
    mu,         \* sr.mu: who holds the exclusive lock, NoHolder when free
    call,       \* per RegisterService call: pc and the returned error
    probe,      \* per probe goroutine: pc, name, the pointer it read
    loop,       \* StartHealthChecks: where the goroutine is
    tickPending,\* a tick waits in ticker.C (a channel of capacity 1)
    ticks,      \* ticks the ticker has delivered
    ctxDone,    \* ctx.Done() is closed
    lastReg,    \* name -> the valid call for it that acquired sr.mu last
    trustScore, \* App: the trustScore state (its overall value), NullScore when null
    dash,       \* App: the services state, the cards ServiceDiscovery renders
    resp,       \* what the route behind requireHighTrust answered last
    report,     \* what a trust-score handler answered last
    calc,       \* the trust score calculation made last: factors, total, access level
    vreq,       \* the request validateInput handled last and its answer
    handler     \* a discovery HTTP handler: where it is, the pointers it encodes

regVars == <<heap, services, mu, call, probe, loop, tickPending, ticks, ctxDone, lastReg>>
gateVars == <<trustScore, dash, resp>>
trustVars == <<report, calc>>
inputVars == <<vreq>>
handlerVars == <<handler>>
vars == <<heap, services, mu, call, probe, loop, tickPending, ticks, ctxDone, lastReg,
          trustScore, dash, resp, report, calc, vreq, handler>>

NoObj == MkInfo("", "", "", 0, EpNone, "")
IdleCall == [pc |-> "idle", err |-> FALSE]
NoProbe == [pc |-> "none", name |-> "", obj |-> NilPtr, out |-> -1]

\* useState<TrustScore | null>(null)
NullScore == -1
NoResp == [status |-> 0, error |-> "", required |-> 0, current |-> NullScore, handled |-> FALSE]

\* useState(null), useState([]); no request answered yet.
InitGate ==
    /\ trustScore = NullScore
    /\ dash = << >>
    /\ resp = NoResp

\* NewServiceRegistry: an empty map; main starts StartHealthChecks at once.
InitReg ==
    /\ heap = [o \in CallIds |-> NoObj]
    /\ services = [n \in Names |-> NilPtr]
    /\ mu = NoHolder
    /\ call = [r \in CallIds |-> IdleCall]
    /\ probe = [p \in ProbeIds |-> NoProbe]
    /\ loop = "select"
    /\ tickPending = FALSE
    /\ ticks = 0
    /\ ctxDone = FALSE
    /\ lastReg = [n \in Names |-> NilPtr]

\* TrustFactors: the five factors of a trust score.
MkFactors(i, d, b, l, r) == [identity |-> i, device |-> d, behavior |-> b, location |-> l, risk |-> r]
NoFactors == MkFactors(0, 0, 0, 0, 0)
NoReport == [handler |-> "", status |-> 0, overall |-> 0, factors |-> NoFactors]
NoCalc == [done |-> FALSE, factors |-> NoFactors, totalScore |-> 0, accessLevel |-> ""]

\* No trust score requested and none calculated yet.
InitTrust ==
    /\ report = NoReport
    /\ calc = NoCalc

\* A request: whether the body binds as a JSON object, the object's values by
\* key, and the answer.
NoRequest ==
    [bound |-> FALSE, input |-> [k \in {"username", "query"} |-> [kind |-> "none", str |-> << >>]],
     status |-> 0, error |-> "", handled |-> FALSE]

\* No request handled yet.
InitInput == vreq = NoRequest

\* No discovery request in progress.
IdleHandler == [pc |-> "idle", ptrs |-> {}]
InitHandler == handler = IdleHandler

Init == InitReg /\ InitGate /\ InitTrust /\ InitInput /\ InitHandler

Registered == { n \in Names : services[n] # NilPtr }

\* ------------------------------------------------------- RegisterService
\* A validation that tests the name alone.
InvalidEntryNameOnly(e) == e.Name = ""

\* service.Name == "" || service.URL == ""
InvalidEntry(e) == e.Name = "" \/ e.URL = ""

\* sr.mu.Lock() of a call with argument e; the caller's object is heap[r].
RegLock(r, e) ==
    /\ call[r].pc = "idle"
    /\ \A q \in CallIds : q < r => call[q].pc # "idle"
    /\ mu = NoHolder
    /\ mu' = CallHolder(r)
    /\ heap' = [heap EXCEPT ![r] = e]
    /\ call' = [call EXCEPT ![r].pc = "locked"]
    /\ lastReg' = IF InvalidEntry(e) THEN lastReg ELSE [lastReg EXCEPT ![e.Name] = r]
    /\ UNCHANGED <<services, probe, loop, tickPending, ticks, ctxDone>>
    /\ UNCHANGED <<gateVars, trustVars, inputVars, handlerVars>>

\* A store that keeps the entry already registered under the name.
StoreEntryKeepFirst(m, r) == IF m[heap[r].Name] = NilPtr THEN [m EXCEPT ![heap[r].Name] = r] ELSE m

\* A store into a fresh map.
StoreEntryFreshMap(m, r) == [n \in Names |-> IF n = heap[r].Name THEN r ELSE NilPtr]

\* A store that takes a second registration of a name for its removal.
StoreEntryToggle(m, r) ==
    IF m[heap[r].Name] = NilPtr THEN [m EXCEPT ![heap[r].Name] = r] ELSE [m EXCEPT ![heap[r].Name] = NilPtr]

\* The map after sr.services[service.Name] = service.
StoreEntry(m, r) == [m EXCEPT ![heap[r].Name] = r]

\* A registration that leaves the first probe to the next cycle.
SpawnNoProbe(pr, r) == pr

\* The goroutines after go sr.checkServiceHealth(service.Name).
SpawnProbe(pr, r) ==
    [pr EXCEPT ![RegProbe(r)] = [pc |-> "spawned", name |-> heap[r].Name, obj |-> NilPtr, out |-> -1]]

\* A body whose error return leaves the lock held (no deferred Unlock).
RegBodyNoUnlockOnError(r) ==
    /\ call[r].pc = "locked"
    /\ mu = CallHolder(r)
    /\ IF InvalidEntry(heap[r])
       THEN /\ call' = [call EXCEPT ![r].pc = "returned", ![r].err = TRUE]
            /\ heap' = [heap EXCEPT ![r] = NoObj]
            /\ UNCHANGED <<services, probe, mu>>
       ELSE /\ services' = StoreEntry(services, r)
            /\ probe' = SpawnProbe(probe, r)
            /\ call' = [call EXCEPT ![r].pc = "returned"]
            /\ mu' = NoHolder
            /\ UNCHANGED heap
    /\ UNCHANGED <<loop, tickPending, ticks, ctxDone, lastReg>>
    /\ UNCHANGED <<gateVars, trustVars, inputVars, handlerVars>>

\* The body under the lock and the deferred Unlock: the validation, the store,
\* go sr.checkServiceHealth(service.Name), return.  A caller whose call failed
\* drops the object it passed.
RegBody(r) ==
    /\ call[r].pc = "locked"
    /\ mu = CallHolder(r)
    /\ IF InvalidEntry(heap[r])
       THEN /\ call' = [call EXCEPT ![r].pc = "returned", ![r].err = TRUE]
            /\ heap' = [heap EXCEPT ![r] = NoObj]
            /\ UNCHANGED <<services, probe>>
       ELSE /\ services' = StoreEntry(services, r)
            /\ probe' = SpawnProbe(probe, r)
            /\ call' = [call EXCEPT ![r].pc = "returned"]
            /\ UNCHANGED heap
    /\ mu' = NoHolder
    /\ UNCHANGED <<loop, tickPending, ticks, ctxDone, lastReg>>
    /\ UNCHANGED <<gateVars, trustVars, inputVars, handlerVars>>

\* A first critical section that keeps the lock for the request.
ProbeReadHoldLock(p) ==
    /\ probe[p].pc = "spawned"
    /\ mu = NoHolder
    /\ mu' = IF services[probe[p].name] = NilPtr THEN mu ELSE p
    /\ probe' = [probe EXCEPT ![p] =
                    IF services[probe[p].name] = NilPtr
                    THEN [@ EXCEPT !.pc = "done"]
                    ELSE [@ EXCEPT !.pc = "http", !.obj = services[probe[p].name]]]
    /\ UNCHANGED <<heap, services, call, loop, tickPending, ticks, ctxDone, lastReg>>
    /\ UNCHANGED <<gateVars, trustVars, inputVars, handlerVars>>

\* ------------------------------------------------------ checkServiceHealth
\* The first critical section: RLock; service, exists := sr.services[name];
\* RUnlock; return when the name is absent.  No goroutine blocks while it holds
\* the shared lock, so the section is one step, enabled while no writer holds mu.
ProbeRead(p) ==
    /\ probe[p].pc = "spawned"
    /\ mu = NoHolder
    /\ probe' = [probe EXCEPT ![p] =
                    IF services[probe[p].name] = NilPtr
                    THEN [@ EXCEPT !.pc = "done"]
                    ELSE [@ EXCEPT !.pc = "http", !.obj = services[probe[p].name]]]
    /\ UNCHANGED <<heap, services, mu, call, loop, tickPending, ticks, ctxDone, lastReg>>
    /\ UNCHANGED <<gateVars, trustVars, inputVars, handlerVars>>

\* A status test that accepts every 2xx code.
StatusForAny2xx(out) ==
    IF out = 0 THEN "unhealthy"
    ELSE IF out >= 200 /\ out <= 299 THEN "healthy" ELSE "unhealthy"

\* err != nil -> "unhealthy"; resp.StatusCode == http.StatusOK -> "healthy";
\* else "unhealthy".
StatusFor(out) ==
    IF out = 0 THEN "unhealthy"
    ELSE IF out = 200 THEN "healthy" ELSE "unhealthy"

\* time.Now(): the clock reads the ticker periods that have elapsed.
Now == ticks + 1

\* A record that writes a fresh ServiceInfo with the name, the URL and the
\* result.
RecordedFresh(o, out, t) ==
    [MkInfo(o.Name, o.URL, StatusFor(out), 0, EpNone, "") EXCEPT !.LastChecked = t]

\* A record that returns on a failed request before it writes anything.
RecordedSkipError(o, out, t) ==
    IF out = 0 THEN o ELSE [o EXCEPT !.LastChecked = t, !.Status = StatusFor(out)]

\* The object after service.LastChecked = time.Now() and the Status assignment.
Recorded(o, out, t) == [o EXCEPT !.LastChecked = t, !.Status = StatusFor(out)]

\* sr.checker.client.Get(healthURL) has returned with outcome out (outside any
\* lock); the goroutine acquires sr.mu.Lock() and writes LastChecked and Status
\* through the pointer it read in the first critical section.
ProbeRecord(p, out) ==
    /\ probe[p].pc = "http"
    /\ mu = NoHolder
    /\ mu' = p
    /\ heap' = [heap EXCEPT ![probe[p].obj] = Recorded(@, out, Now)]
    /\ probe' = [probe EXCEPT ![p].pc = "written", ![p].out = out]
    /\ UNCHANGED <<services, call, loop, tickPending, ticks, ctxDone, lastReg>>
    /\ UNCHANGED <<gateVars, trustVars, inputVars, handlerVars>>

\* The return: the deferred resp.Body.Close() and sr.mu.Unlock(); the
\* goroutine and its locals are gone.
ProbeUnlock(p) ==
    /\ probe[p].pc = "written"
    /\ mu = p
    /\ mu' = NoHolder
    /\ probe' = [probe EXCEPT ![p].pc = "done", ![p].obj = NilPtr, ![p].out = -1]
    /\ UNCHANGED <<heap, services, call, loop, tickPending, ticks, ctxDone, lastReg>>
    /\ UNCHANGED <<gateVars, trustVars, inputVars, handlerVars>>

\* ------------------------------------- StartHealthChecks, checkAllServices
\* The ticker puts a tick into ticker.C (capacity 1) until ticker.Stop().
TimerFire ==
    /\ loop # "stopped"
    /\ ticks < MaxTicks
    /\ ~tickPending
    /\ tickPending' = TRUE
    /\ ticks' = ticks + 1
    /\ UNCHANGED <<heap, services, mu, call, probe, loop, ctxDone, lastReg>>
    /\ UNCHANGED <<gateVars, trustVars, inputVars, handlerVars>>

\* cancel() of the context passed to StartHealthChecks.
Cancel ==
    /\ ~ctxDone
    /\ ctxDone' = TRUE
    /\ UNCHANGED <<heap, services, mu, call, probe, loop, tickPending, ticks, lastReg>>
    /\ UNCHANGED <<gateVars, trustVars, inputVars, handlerVars>>

\* The cases of the select that are ready; Go picks one of the ready cases.
ReadyCases == (IF tickPending THEN {"tick"} ELSE {}) \cup (IF ctxDone THEN {"done"} ELSE {})

\* select, case <-ticker.C: sr.checkAllServices() is called.
LoopSelectTick ==
    /\ loop = "select"
    /\ "tick" \in ReadyCases
    /\ tickPending' = FALSE
    /\ loop' = "tick"
    /\ UNCHANGED <<heap, services, mu, call, probe, ticks, ctxDone, lastReg>>
    /\ UNCHANGED <<gateVars, trustVars, inputVars, handlerVars>>

\* select, case <-ctx.Done(): return.
LoopSelectDone ==
    /\ loop = "select"
    /\ "done" \in ReadyCases
    /\ loop' = "stopped"
    /\ UNCHANGED <<heap, services, mu, call, probe, tickPending, ticks, ctxDone, lastReg>>
    /\ UNCHANGED <<gateVars, trustVars, inputVars, handlerVars>>

\* A cycle that probes one of the registered services only.
CheckAllSnapshotOne ==
    /\ loop = "tick"
    /\ mu = NoHolder
    /\ probe' = [p \in ProbeIds |->
                    IF Registered # {} /\ p = CycProbe(CHOOSE n \in Registered : TRUE)
                    THEN [pc |-> "spawned", name |-> p[3], obj |-> NilPtr, out |-> -1]
                    ELSE probe[p]]
    /\ loop' = "wait"
    /\ UNCHANGED <<heap, services, mu, call, tickPending, ticks, ctxDone, lastReg>>
    /\ UNCHANGED <<gateVars, trustVars, inputVars, handlerVars>>

\* checkAllServices: the names are collected under RLock and one goroutine per
\* name is started (wg.Add(1); go func ...).
CheckAllSnapshot ==
    /\ loop = "tick"
    /\ mu = NoHolder
    /\ probe' = [p \in ProbeIds |->
                    IF \E n \in Registered : p = CycProbe(n)
                    THEN [pc |-> "spawned", name |-> p[3], obj |-> NilPtr, out |-> -1]
                    ELSE probe[p]]
    /\ loop' = "wait"
    /\ UNCHANGED <<heap, services, mu, call, tickPending, ticks, ctxDone, lastReg>>
    /\ UNCHANGED <<gateVars, trustVars, inputVars, handlerVars>>

\* A return that does not wait for the goroutines of the cycle.
CheckAllJoinNoWait ==
    /\ loop = "wait"
    /\ loop' = "select"
    /\ UNCHANGED <<heap, services, mu, call, probe, tickPending, ticks, ctxDone, lastReg>>
    /\ UNCHANGED <<gateVars, trustVars, inputVars, handlerVars>>

\* wg.Wait() returns when every goroutine of the cycle has called wg.Done();
\* the goroutines of the cycle are gone.
CheckAllJoin ==
    /\ loop = "wait"
    /\ \A n \in Names : probe[CycProbe(n)].pc \in {"none", "done"}
    /\ probe' = [p \in ProbeIds |-> IF p[1] = "cyc" THEN NoProbe ELSE probe[p]]
    /\ loop' = "select"
    /\ UNCHANGED <<heap, services, mu, call, tickPending, ticks, ctxDone, lastReg>>
    /\ UNCHANGED <<gateVars, trustVars, inputVars, handlerVars>>

\* ----------------------------------------------------------- read accessors
\* Each accessor holds sr.mu.RLock() from entry to return and changes nothing:
\* it is an operator on the state, defined where no writer holds mu.
\* The orders in which a range over the map may visit the keys.
Orders(S) == { s \in [1..Cardinality(S) -> S] : \A i, j \in 1..Cardinality(S) : s[i] = s[j] => i = j }

\* The pointers of the map in the order ord of its keys.
Pointers(ord) == [i \in 1..Len(ord) |-> services[ord[i]]]

\* Names a caller looks up: the names of ArgSet and one that is never registered.
LookupNames == Names \cup {"zz"}
Lookup(n) == IF n \in Names THEN services[n] ELSE NilPtr

\* A lookup that reports no error.
GetServiceNoError(n) == [ptr |-> Lookup(n), err |-> FALSE]

\* GetService: service, exists := sr.services[name]; the pointer, or nil and an error.
GetService(n) ==
    IF Lookup(n) = NilPtr THEN [ptr |-> NilPtr, err |-> TRUE]
    ELSE [ptr |-> Lookup(n), err |-> FALSE]

\* ListServices: every pointer of the map, appended in range order.
ListServices(ord) == Pointers(ord)

\* A filter that drops only the entries known to be unhealthy.
IsNotUnhealthy(p) == heap[p].Status # "unhealthy"

\* service.Status == "healthy"
IsHealthy(p) == heap[p].Status = "healthy"

\* ListHealthyServices: the pointers whose entry passes the Status test.
ListHealthyServices(ord) == SelectSeq(Pointers(ord), IsHealthy)

\* A trust test that excludes the boundary.
AccessibleAtStrict(t, p) == t > heap[p].TrustLevel

\* A trust test for equality.
AccessibleAtExact(t, p) == t = heap[p].TrustLevel

\* trustLevel >= service.TrustLevel
AccessibleAt(t, p) == t >= heap[p].TrustLevel

\* ListServicesByTrustLevel: the pointers whose entry passes the trust test.
ListServicesByTrustLevel(ord, t) == SelectSeq(Pointers(ord), LAMBDA p : AccessibleAt(t, p))

\* ------------------------------------------------- callers of the registry
\* A caller that holds the pointer GetService(n) returned writes a field of the
\* ServiceInfo through it (here TrustLevel = 0), outside any lock.
TamperReturned(n) ==
    /\ mu = NoHolder
    /\ ~GetService(n).err
    /\ heap[GetService(n).ptr].TrustLevel # 0
    /\ heap' = [heap EXCEPT ![GetService(n).ptr].TrustLevel = 0]
    /\ UNCHANGED <<services, mu, call, probe, loop, tickPending, ticks, ctxDone, lastReg>>
    /\ UNCHANGED <<gateVars, trustVars, inputVars, handlerVars>>

\* The caller of a RegisterService call that has returned nil writes a field of
\* the object it passed.
TamperRegistered(r) ==
    /\ call[r].pc = "returned"
    /\ ~call[r].err
    /\ heap[r].TrustLevel # 0
    /\ heap' = [heap EXCEPT ![r].TrustLevel = 0]
    /\ UNCHANGED <<services, mu, call, probe, loop, tickPending, ticks, ctxDone, lastReg>>
    /\ UNCHANGED <<gateVars, trustVars, inputVars, handlerVars>>

\* ------------------------------------------------ discovery HTTP handlers
\* HandleListServices: services := h.registry.ListServices() has returned
\* (under RLock, released at the return); the handler holds the pointers.
HandleListServices ==
    /\ handler.pc = "idle"
    /\ mu = NoHolder
    /\ handler' = [pc |-> "encode", ptrs |-> { services[n] : n \in Registered }]
    /\ UNCHANGED <<regVars, gateVars, trustVars, inputVars>>

\* HandleGetService: 404 when GetService returns an error, else the handler
\* holds the pointer.
HandleGetService(n) ==
    /\ handler.pc = "idle"
    /\ mu = NoHolder
    /\ handler' = IF GetService(n).err THEN IdleHandler
                  ELSE [pc |-> "encode", ptrs |-> {GetService(n).ptr}]
    /\ UNCHANGED <<regVars, gateVars, trustVars, inputVars>>

\* json.NewEncoder(w).Encode(...) reads every field of the objects behind the
\* pointers, with no lock held, and the handler returns.
HandleEncode ==
    /\ handler.pc = "encode"
    /\ handler' = IdleHandler
    /\ UNCHANGED <<regVars, gateVars, trustVars, inputVars>>

\* ------------------------------------------- the dashboard's access check
\* const discoveredServices (name, trustRequired; every status 'unknown').
DiscoveredServices ==
    << [name |-> "API Gateway",   status |-> "unknown", trustRequired |-> 0],
       [name |-> "Keycloak",      status |-> "unknown", trustRequired |-> 0],
       [name |-> "User Service",  status |-> "unknown", trustRequired |-> 25],
       [name |-> "Admin Service", status |-> "unknown", trustRequired |-> 75],
       [name |-> "Audit Service", status |-> "unknown", trustRequired |-> 50] >>

\* Overall trust scores the server reports.
ScoreSet == {0, 24, 25, 49, 50, 75, 88, 89, 90, 100}

\* What fetch(`${service.url}/health`) ends with: 0 when it throws.
FetchOutcomes == {0, 200, 503}

\* response.ok
ResponseOk(out) == out >= 200 /\ out <= 299

\* login / fetchTrustScore: setTrustScore({overall: ...}).
SetTrustScore(v) ==
    /\ trustScore' = v
    /\ UNCHANGED <<dash, resp>>
    /\ UNCHANGED <<regVars, trustVars, inputVars, handlerVars>>

\* logout: setTrustScore(null); setServices([]).
Logout ==
    /\ trustScore' = NullScore
    /\ dash' = << >>
    /\ UNCHANGED resp
    /\ UNCHANGED <<regVars, trustVars, inputVars, handlerVars>>

\* checkServices: one fetch per discovered service; response.ok gives
\* 'healthy', anything else and a throw give 'unhealthy'; setServices.
CheckServices(outs) ==
    /\ dash' = [i \in 1..Len(DiscoveredServices) |->
                  [DiscoveredServices[i] EXCEPT
                      !.status = IF ResponseOk(outs[i]) THEN "healthy" ELSE "unhealthy"]]
    /\ UNCHANGED <<trustScore, resp>>
    /\ UNCHANGED <<regVars, trustVars, inputVars, handlerVars>>

\* A comparison that excludes the boundary.
CanAccessServiceStrict(requiredTrust) ==
    IF trustScore # NullScore THEN trustScore > requiredTrust ELSE FALSE

\* canAccessService: trustScore ? trustScore.overall >= requiredTrust : false
CanAccessService(requiredTrust) ==
    IF trustScore # NullScore THEN trustScore >= requiredTrust ELSE FALSE

\* ServiceDiscovery: canAccess={canAccessService(service.trustRequired)};
\* ServiceCard shows the "Access Service" button exactly when canAccess.
CardCanAccess(svc) == CanAccessService(svc.trustRequired)

\* The trust level requireHighTrust demands.
HighTrustRequired == 90

\* A refusal that goes on to run the handler (no c.Abort() and return).
RequireHighTrustNoAbort(exists, score) ==
    IF ~exists \/ score < HighTrustRequired
    THEN [status |-> 403, error |-> "trust_score_insufficient", required |-> HighTrustRequired,
          current |-> IF exists THEN score ELSE NullScore, handled |-> TRUE]
    ELSE [status |-> 200, error |-> "", required |-> 0, current |-> score, handled |-> TRUE]

\* requireHighTrust: !exists || trustScore.(int) < 90 gives 403 with the error,
\* "required" and "current", and c.Abort(); else handler(c).
RequireHighTrust(exists, score) ==
    IF ~exists \/ score < HighTrustRequired
    THEN [status |-> 403, error |-> "trust_score_insufficient", required |-> HighTrustRequired,
          current |-> IF exists THEN score ELSE NullScore, handled |-> FALSE]
    ELSE [status |-> 200, error |-> "", required |-> 0, current |-> score, handled |-> TRUE]

\* A request to the route wrapped in requireHighTrust, with the trust_score
\* the authentication middleware set (or none).
HighTrustRequest(exists, score) ==
    /\ resp' = RequireHighTrust(exists, score)
    /\ UNCHANGED <<trustScore, dash>>
    /\ UNCHANGED <<regVars, trustVars, inputVars, handlerVars>>

\* ---------------------------------------------------------- trust score
\* The score both trust-score handlers answer with: Overall 88 and the factors
\* 30, 20, 18, 12, 8.
DemoTrustScore(h) ==
    [handler |-> h, status |-> 200, overall |-> 88, factors |-> MkFactors(30, 20, 18, 12, 8)]

\* handleTrustScore: 401 when the context holds no user, else the demo score.
HandleTrustScore(exists) ==
    /\ report' = IF ~exists
                 THEN [handler |-> "handleTrustScore", status |-> 401, overall |-> 0, factors |-> NoFactors]
                 ELSE DemoTrustScore("handleTrustScore")
    /\ UNCHANGED calc
    /\ UNCHANGED <<regVars, gateVars, inputVars, handlerVars>>

\* Handlers.GetTrustScore: always the demo score.
GetTrustScore ==
    /\ report' = DemoTrustScore("GetTrustScore")
    /\ UNCHANGED calc
    /\ UNCHANGED <<regVars, gateVars, inputVars, handlerVars>>

\* The rows of TestTrustScoreCalculation.
TrustTests ==
    << [name |-> "High Trust Score", factors |-> MkFactors(30, 25, 20, 15, 5),
        expectedTrustScore |-> 95, expectedAccessLevel |-> "admin"],
       [name |-> "Medium Trust Score", factors |-> MkFactors(25, 20, 15, 10, 5),
        expectedTrustScore |-> 75, expectedAccessLevel |-> "user"],
       [name |-> "Low Trust Score", factors |-> MkFactors(15, 10, 8, 5, 15),
        expectedTrustScore |-> 53, expectedAccessLevel |-> "read_only"],
       [name |-> "Critical Risk Score", factors |-> MkFactors(10, 5, 5, 2, 25),
        expectedTrustScore |-> 47, expectedAccessLevel |-> "denied"] >>

\* The factor values a calculation is made with: those of the rows and the
\* values between them that put totals on and next to each tier boundary.
FactorInputs ==
    { TrustTests[i].factors : i \in 1..Len(TrustTests) }
    \cup { MkFactors(i, d, b, l, r) : i \in {10, 15, 25, 30}, d \in {5, 10, 20, 25},
                                      b \in {5, 8, 15, 20}, l \in {2, 5, 10, 15},
                                      r \in {0, 5, 10, 11, 15, 25} }

\* totalScore := identity + device + behavior + location + (10 - risk)
TotalScore(f) == f.identity + f.device + f.behavior + f.location + (10 - f.risk)

\* A mapping whose boundaries belong to the lower tier.
AccessLevelStrict(totalScore) ==
    IF totalScore > 90 THEN "admin"
    ELSE IF totalScore > 70 THEN "user"
    ELSE IF totalScore > 50 THEN "read_only"
    ELSE "denied"

\* switch { case totalScore >= 90: "admin"; case totalScore >= 70: "user";
\* case totalScore >= 50: "read_only"; default: "denied" }
AccessLevel(totalScore) ==
    IF totalScore >= 90 THEN "admin"
    ELSE IF totalScore >= 70 THEN "user"
    ELSE IF totalScore >= 50 THEN "read_only"
    ELSE "denied"

\* The body of a test run: the total of the factors and its access level.
TrustScoreCalculation(f) ==
    /\ calc' = [done |-> TRUE, factors |-> f, totalScore |-> TotalScore(f),
                accessLevel |-> AccessLevel(TotalScore(f))]
    /\ UNCHANGED report
    /\ UNCHANGED <<regVars, gateVars, inputVars, handlerVars>>

\* -------------------------------------------------------- validateInput
\* Strings are sequences of characters.
\* sqlPatterns
SqlPatterns ==
    << <<"D", "R", "O", "P", " ", "T", "A", "B", "L", "E">>,
       <<"D", "E", "L", "E", "T", "E", " ", "F", "R", "O", "M">>,
       <<"I", "N", "S", "E", "R", "T", " ", "I", "N", "T", "O">>,
       <<"U", "P", "D", "A", "T", "E", " ", "S", "E", "T">>,
       <<"'", " ", "O", "R", " ", "'", "1", "'", "=", "'", "1">>,
       <<"'", ";", " ", "-", "-">>,
       <<"U", "N", "I", "O", "N", " ", "S", "E", "L", "E", "C", "T">> >>

\* The values of a JSON object: strings, a number, and an object or array
\* that holds a string.
JsonValues ==
    {
      [kind |-> "string", str |-> <<"a", "d", "m", "i", "n", "'", ";", " ", "D", "R", "O", "P", " ", "T", "A", "B", "L", "E", " ", "u", "s", "e", "r", "s", ";", " ", "-", "-">>],   \* the test's username
      [kind |-> "string", str |-> <<"1", "'", " ", "O", "R", " ", "'", "1", "'", "=", "'", "1">>],   \* the test's query
      [kind |-> "string", str |-> <<"D", "R", "O", "P", " ", "T", "A", "B", "L", "E", " ", "u", "s", "e", "r", "s">>],   \* a pattern first, text after it
      [kind |-> "string", str |-> <<"D", "R", "O", "P", " ", "T", "A", "B", "L", "E">>],   \* a pattern and nothing else
      [kind |-> "string", str |-> <<"'", ";", " ", "-", "-", "x">>],   \* a pattern first, text after it
      [kind |-> "string", str |-> <<"x", " ", "U", "N", "I", "O", "N", " ", "S", "E", "L", "E", "C", "T">>],   \* a pattern last
      [kind |-> "string", str |-> <<"a", "l", "i", "c", "e">>],   \* no pattern
      [kind |-> "string", str |-> <<>>],   \* no pattern
      [kind |-> "number", str |-> << >>],
      [kind |-> "nested", str |-> <<"D", "R", "O", "P", " ", "T", "A", "B", "L", "E", " ", "u", "s", "e", "r", "s">>],
      [kind |-> "nested", str |-> <<"o", "k">>] }

\* The keys of the request bodies.
JsonKeys == {"username", "query"}
NoValue == [kind |-> "none", str |-> << >>]

\* The request bodies: one that does not bind as a JSON object, and the
\* objects over the keys.
Bodies ==
    { [bound |-> FALSE, input |-> [k \in JsonKeys |-> NoValue]] }
    \cup { [bound |-> TRUE, input |-> f] : f \in [JsonKeys -> JsonValues] }

\* containsSQLInjection: len(input) > len(pattern) && input[:len(pattern)] == pattern
ContainsSQLInjection(input) ==
    \E i \in 1..Len(SqlPatterns) :
        /\ Len(input) > Len(SqlPatterns[i])
        /\ SubSeq(input, 1, Len(SqlPatterns[i])) = SqlPatterns[i]

\* validateInput: 400 invalid_json when the body does not bind; 400
\* invalid_input when a value of the object that is a string tests positive;
\* else handler(c).
ValidateInput(b) ==
    IF ~b.bound
    THEN [status |-> 400, error |-> "invalid_json", handled |-> FALSE]
    ELSE IF \E k \in JsonKeys : b.input[k].kind = "string" /\ ContainsSQLInjection(b.input[k].str)
         THEN [status |-> 400, error |-> "invalid_input", handled |-> FALSE]
         ELSE [status |-> 200, error |-> "", handled |-> TRUE]

\* A request with body b to the route wrapped in validateInput.
ValidateInputRequest(b) ==
    /\ vreq' = [bound |-> b.bound, input |-> b.input, status |-> ValidateInput(b).status,
                error |-> ValidateInput(b).error, handled |-> ValidateInput(b).handled]
    /\ UNCHANGED <<regVars, gateVars, trustVars, handlerVars>>

\* ------------------------------------------------------------ specifications
\* The registry with the goroutines of the repository: the RegisterService
\* calls, the probes and the background loop.
Next ==
    \/ \E r \in CallIds, e \in ArgSet : RegLock(r, e)
    \/ \E r \in CallIds : RegBody(r)
    \/ \E p \in ProbeIds : ProbeRead(p)
    \/ \E p \in ProbeIds, out \in Outcomes : ProbeRecord(p, out)
    \/ \E p \in ProbeIds : ProbeUnlock(p)
    \/ TimerFire
    \/ Cancel
    \/ LoopSelectTick
    \/ LoopSelectDone
    \/ CheckAllSnapshot
    \/ CheckAllJoin

Spec == Init /\ [][Next]_vars

\* The scheduling the runtime guarantees: a goroutine that can take a step
\* takes it.  A request returns (the client's Timeout bounds it), a goroutine
\* waiting for sr.mu gets it once it is free, the holder of sr.mu runs to its
\* Unlock, and the loop goroutine runs.  Nothing obliges a caller to call
\* RegisterService, the ticker to tick or the context to be cancelled.
Fairness ==
    /\ \A r \in CallIds : WF_vars(RegBody(r))
    /\ \A p \in ProbeIds : WF_vars(ProbeRead(p))
    /\ \A p \in ProbeIds : WF_vars(\E out \in Outcomes : ProbeRecord(p, out))
    /\ \A p \in ProbeIds : WF_vars(ProbeUnlock(p))
    /\ WF_vars(LoopSelectTick \/ LoopSelectDone)
    /\ WF_vars(CheckAllSnapshot)
    /\ WF_vars(CheckAllJoin)

SpecLive == Init /\ [][Next]_vars /\ Fairness

\* The same with callers that write through the pointers the registry's API
\* hands them.
Tamper ==
    \/ \E n \in LookupNames : TamperReturned(n)
    \/ \E r \in CallIds : TamperRegistered(r)

NextTamper == Next \/ Tamper

SpecTamper == Init /\ [][NextTamper]_vars

\* The registry with the discovery HTTP handlers reading it.
Handlers ==
    \/ HandleListServices
    \/ \E n \in LookupNames : HandleGetService(n)
    \/ HandleEncode

NextHandlers == Next \/ Handlers

SpecHandlers == Init /\ [][NextHandlers]_vars

\* The dashboard and the route behind requireHighTrust.
NextGate ==
    \/ \E v \in ScoreSet : SetTrustScore(v)
    \/ Logout
    \/ \E outs \in [1..Len(DiscoveredServices) -> FetchOutcomes] : CheckServices(outs)
    \/ \E exists \in BOOLEAN, score \in ScoreSet : HighTrustRequest(exists, score)

SpecGate == Init /\ [][NextGate]_vars

\* The trust-score handlers and the trust score calculation.
NextTrust ==
    \/ \E exists \in BOOLEAN : HandleTrustScore(exists)
    \/ GetTrustScore
    \/ \E f \in FactorInputs : TrustScoreCalculation(f)

SpecTrust == Init /\ [][NextTrust]_vars

\* The route behind validateInput.
NextInput == \E b \in Bodies : ValidateInputRequest(b)

SpecInput == Init /\ [][NextInput]_vars

\* =================================================================== claims
\* The entry registered under n, as a reader sees it through the pointer.
Entry(n) == heap[services[n]]
\* The fields a registration supplies and no probe writes.
RegFields(o) == <<o.Name, o.URL, o.TrustLevel, o.Endpoints, o.Metadata>>
\* The calls that have returned nil.
OkCalls == { r \in CallIds : call[r].pc = "returned" /\ ~call[r].err }
\* The elements of a sequence.
Range(q) == { q[i] : i \in 1..Len(q) }
\* Health as the spec names it: Unknown is every Status but the two a probe writes.
IsUnknown(st) == st \notin {"healthy", "unhealthy"}
\* The Status the caller passed with the object o.
SuppliedStatus(o) == (CHOOSE e \in ArgSet : RegFields(e) = RegFields(o)).Status

\* C1: a RegisterService call whose entry has an empty name or an empty URL
\* returns an error, and the step leaves the map, every stored entry and the
\* probe goroutines as they were.
C1_InvalidEntryRejected ==
    [][\A r \in CallIds :
         (/\ call[r].pc = "locked"
          /\ (heap[r].Name = "" \/ heap[r].URL = "")
          /\ call'[r].pc = "returned")
         => /\ call'[r].err
            /\ services' = services
            /\ \A n \in Registered : heap'[services[n]] = heap[services[n]]
            /\ probe' = probe]_vars

\* A call has returned an error while an entry is registered and while
\* another call has succeeded.
C1_Witness ==
    \E r \in CallIds : call[r].pc = "returned" /\ call[r].err /\ Registered # {} /\ OkCalls # {}

\* C2: whenever no RegisterService call for n is inside its critical section,
\* the entry stored under n is the object of the valid call for n that acquired
\* sr.mu last; that call returned nil, and the stored entry's registration
\* fields are those of one argument (no mixture of two arguments).
C2_LastWriterWins ==
    \A n \in Names :
        (lastReg[n] # NilPtr /\ mu # CallHolder(lastReg[n]))
        => /\ services[n] = lastReg[n]
           /\ lastReg[n] \in OkCalls
           /\ Entry(n).Name = n
           /\ \E e \in ArgSet : RegFields(e) = RegFields(Entry(n))

\* Two calls for the same name have returned nil and the later one's object,
\* different in its fields from the earlier one's, is the stored entry.
C2_Witness ==
    \E r1, r2 \in OkCalls :
        /\ r1 < r2
        /\ heap[r1].Name = heap[r2].Name
        /\ RegFields(heap[r1]) # RegFields(heap[r2])
        /\ mu = NoHolder
        /\ services[heap[r2].Name] = r2

\* C5: ListServicesByTrustLevel(t) returns exactly the registered entries
\* whose TrustLevel is <= t, whatever the order of the range over the map.
C5_ListByTrustExact ==
    mu = NoHolder =>
        \A t \in TrustArgs, ord \in Orders(Registered) :
            /\ Range(ListServicesByTrustLevel(ord, t)) \subseteq { services[n] : n \in Registered }
            /\ \A n \in Registered :
                 (Entry(n).TrustLevel <= t) <=> (services[n] \in Range(ListServicesByTrustLevel(ord, t)))

\* One entry's TrustLevel equals t and is returned, another's is above t and
\* is not.
C5_Witness ==
    /\ mu = NoHolder
    /\ \E t \in TrustArgs, n, m \in Registered, ord \in Orders(Registered) :
         /\ Entry(n).TrustLevel = t
         /\ Entry(m).TrustLevel > t
         /\ Range(ListServicesByTrustLevel(ord, t)) = {services[n]}

\* C6 as stated: the Status a probe has just written is "healthy" exactly
\* when the response status is any 2xx code.
C6_HealthyIffAny2xx ==
    \A p \in ProbeIds :
        probe[p].pc = "written"
        => (heap[probe[p].obj].Status = "healthy" <=> (probe[p].out >= 200 /\ probe[p].out <= 299))

\* C6 amended: the Status a probe has just written is "healthy" exactly when
\* the response status is 200, and "unhealthy" for every other outcome (another
\* 2xx code, a non-2xx code, a transport error or timeout).
C6_HealthyIff200 ==
    \A p \in ProbeIds :
        probe[p].pc = "written"
        => \/ probe[p].out = 200 /\ heap[probe[p].obj].Status = "healthy"
           \/ probe[p].out # 200 /\ heap[probe[p].obj].Status = "unhealthy"

\* A probe whose GET was answered 204 has written "unhealthy".
C6_Witness ==
    \E p \in ProbeIds :
        probe[p].pc = "written" /\ probe[p].out = 204 /\ heap[probe[p].obj].Status = "unhealthy"

\* What GetService(n) shows its caller: the entry behind the pointer.
EntrySeen(n) == IF GetService(n).err THEN NoObj ELSE heap[GetService(n).ptr]

\* C7: a write by a caller through a pointer the API handed out (returned by
\* an accessor, or passed to RegisterService) never changes what a later
\* registry read returns.
C7_NoExposureByReference ==
    [][Tamper => \A n \in LookupNames : EntrySeen(n)' = EntrySeen(n)]_vars

C9_NoCycleAfterCancel ==
    [][ctxDone => ~(loop = "select" /\ loop' = "tick")]_vars

\* C10: when every started RegisterService call has returned and the calls
\* that returned nil had pairwise distinct names, ListServices returns exactly
\* one entry per such call, in every order of the range and whatever the probes
\* are doing.
C10_ListAfterDistinctRegisters ==
    (/\ mu = NoHolder
     /\ \A r \in CallIds : call[r].pc # "locked"
     /\ \A r1, r2 \in OkCalls : heap[r1].Name = heap[r2].Name => r1 = r2)
    => \A ord \in Orders(Registered) :
         /\ Len(ListServices(ord)) = Cardinality(OkCalls)
         /\ Range(ListServices(ord)) = OkCalls
         /\ { heap[q].Name : q \in Range(ListServices(ord)) } = { heap[r].Name : r \in OkCalls }

\* Two calls with distinct names have returned nil while a probe's GET is in
\* flight, and ListServices returns two entries.
C10_Witness ==
    /\ mu = NoHolder
    /\ Cardinality(OkCalls) >= 2
    /\ \A r1, r2 \in OkCalls : heap[r1].Name = heap[r2].Name => r1 = r2
    /\ \E p \in ProbeIds : probe[p].pc = "http"
    /\ \E ord \in Orders(Registered) : Len(ListServices(ord)) = Cardinality(OkCalls)

\* C3: a service whose health is Unhealthy is never accessible, whatever the
\* trust score: its card's canAccess is false.
C3_UnhealthyNeverAccessible ==
    \A i \in 1..Len(dash) : dash[i].status = "unhealthy" => ~CardCanAccess(dash[i])

C11_GetServiceLatestOrNotFound ==
    mu = NoHolder =>
        \A n \in LookupNames :
            IF n \in Names /\ lastReg[n] # NilPtr
            THEN GetService(n) = [ptr |-> lastReg[n], err |-> FALSE]
            ELSE GetService(n) = [ptr |-> NilPtr, err |-> TRUE]

\* A name registered twice is found with the later call's entry while
\* another name of the argument set and an unknown name are not found.
C11_Witness ==
    /\ mu = NoHolder
    /\ \E r1, r2 \in OkCalls :
         /\ r1 < r2
         /\ heap[r1].Name = heap[r2].Name
         /\ RegFields(heap[r1]) # RegFields(heap[r2])
         /\ GetService(heap[r2].Name).ptr = r2
    /\ \E n \in Names : GetService(n).err
    /\ GetService("zz").err

\* C12: ListHealthyServices returns exactly the registered entries whose
\* Status is "healthy" at the call, each once, in every order of the range.
C12_ListHealthyExact ==
    mu = NoHolder =>
        \A ord \in Orders(Registered) :
            /\ Range(ListHealthyServices(ord)) = { services[n] : n \in { m \in Registered : Entry(m).Status = "healthy" } }
            /\ Len(ListHealthyServices(ord)) = Cardinality({ m \in Registered : Entry(m).Status = "healthy" })

\* Of two registered entries one is healthy and returned, the other is
\* unknown and not returned.
C12_Witness ==
    /\ mu = NoHolder
    /\ \E n, m \in Registered, ord \in Orders(Registered) :
         /\ Entry(n).Status = "healthy"
         /\ IsUnknown(Entry(m).Status)
         /\ Range(ListHealthyServices(ord)) = {services[n]}

\* C16: a RegisterService call whose entry has the registration fields of the
\* entry already stored under its name returns nil and leaves the content of
\* the registry as it was: the same names, and for each name the same Name,
\* URL, TrustLevel, Endpoints and Metadata.
C16_RegisterIdempotent ==
    [][\A r \in CallIds :
         (/\ call[r].pc = "locked"
          /\ call'[r].pc = "returned"
          /\ heap[r].Name \in Names
          /\ services[heap[r].Name] # NilPtr
          /\ RegFields(heap[services[heap[r].Name]]) = RegFields(heap[r]))
         => /\ ~call'[r].err
            /\ { n \in Names : services'[n] # NilPtr } = { n \in Names : services[n] # NilPtr }
            /\ \A n \in Names : services[n] # NilPtr =>
                 RegFields(heap'[services'[n]]) = RegFields(heap[services[n]])]_vars

\* Two calls with the same entry have returned nil and the entry is listed
\* once.
C16_Witness ==
    /\ mu = NoHolder
    /\ \E r1, r2 \in OkCalls :
         /\ r1 < r2
         /\ RegFields(heap[r1]) = RegFields(heap[r2])
         /\ services[heap[r2].Name] = r2
         /\ \A ord \in Orders(Registered) : Len(ListServices(ord)) = 1

\* The trust levels callers ask with.
TrustRange == 0..100

\* C17: in one registry state, for every trust level t, the services
\* ListServicesByTrustLevel(t) returns are among those
\* ListServicesByTrustLevel(t + 1) returns.
C17_TrustListMonotone ==
    mu = NoHolder =>
        \A t \in TrustRange, ord1, ord2 \in Orders(Registered) :
            Range(ListServicesByTrustLevel(ord1, t)) \subseteq Range(ListServicesByTrustLevel(ord2, t + 1))

\* The list for t is not empty and the list for t + 1 has one entry more.
C17_Witness ==
    /\ mu = NoHolder
    /\ \E t \in TrustRange, ord \in Orders(Registered) :
         /\ ListServicesByTrustLevel(ord, t) # << >>
         /\ Len(ListServicesByTrustLevel(ord, t + 1)) = Len(ListServicesByTrustLevel(ord, t)) + 1

\* The value v brought into lo..hi.
Clamp(v, lo, hi) == IF v < lo THEN lo ELSE IF v > hi THEN hi ELSE v

\* C13: a reported trust score has overall = identity + device + behavior +
\* location - risk, clamped to 0..100, for the factors reported with it.
C13_OverallIsClampedSum ==
    report.status = 200 =>
        report.overall = Clamp(report.factors.identity + report.factors.device + report.factors.behavior
                               + report.factors.location - report.factors.risk, 0, 100)

\* C14: the access level of a total is admin from 90, user from 70 to 89,
\* read_only from 50 to 69 and denied below 50.
C14_TierThresholds ==
    calc.done =>
        /\ calc.totalScore >= 90 => calc.accessLevel = "admin"
        /\ (calc.totalScore >= 70 /\ calc.totalScore < 90) => calc.accessLevel = "user"
        /\ (calc.totalScore >= 50 /\ calc.totalScore < 70) => calc.accessLevel = "read_only"
        /\ calc.totalScore < 50 => calc.accessLevel = "denied"

\* A total on a boundary has the higher tier and the total one below it the
\* lower.
C14_Witness ==
    /\ calc.done
    /\ \/ calc.totalScore = 90 /\ calc.accessLevel = "admin"
       \/ calc.totalScore = 89 /\ calc.accessLevel = "user"
       \/ calc.totalScore = 70 /\ calc.accessLevel = "user"
       \/ calc.totalScore = 69 /\ calc.accessLevel = "read_only"
       \/ calc.totalScore = 50 /\ calc.accessLevel = "read_only"
       \/ calc.totalScore = 49 /\ calc.accessLevel = "denied"

\* C15: the calculation gives, for the factors of each row of the test table,
\* the score and the tier the row expects: 95 admin, 75 user, 53 read_only,
\* 47 denied.
C15_TestTableHolds ==
    calc.done =>
        /\ calc.factors = MkFactors(30, 25, 20, 15, 5) => (calc.totalScore = 95 /\ calc.accessLevel = "admin")
        /\ calc.factors = MkFactors(25, 20, 15, 10, 5) => (calc.totalScore = 75 /\ calc.accessLevel = "user")
        /\ calc.factors = MkFactors(15, 10, 8, 5, 15) => (calc.totalScore = 53 /\ calc.accessLevel = "read_only")
        /\ calc.factors = MkFactors(10, 5, 5, 2, 25) => (calc.totalScore = 47 /\ calc.accessLevel = "denied")

HoldsAt(s, q) == \E j \in 1..(Len(s) + 1) : j + Len(q) - 1 <= Len(s) /\ SubSeq(s, j, j + Len(q) - 1) = q

\* C19: a JSON body in which a string value holds one of the SQL-injection
\* patterns at any position is answered 400 invalid_input and the handler is
\* not run.
C19_InjectionRejectedAnywhere ==
    (vreq.bound /\ \E k \in JsonKeys, i \in 1..Len(SqlPatterns) :
                      vreq.input[k].kind = "string" /\ HoldsAt(vreq.input[k].str, SqlPatterns[i]))
    => (vreq.status = 400 /\ vreq.error = "invalid_input" /\ ~vreq.handled)

\* C21: whoever holds sr.mu is a RegisterService call inside its body or a
\* probe whose request has returned; no probe holds it while its request is
\* outstanding.
C21_NoLockDuringRequest ==
    /\ \A p \in ProbeIds : probe[p].pc \in {"spawned", "http"} => mu # p
    /\ mu # NoHolder =>
         \/ \E r \in CallIds : mu = CallHolder(r) /\ call[r].pc = "locked"
         \/ \E p \in ProbeIds : mu = p /\ probe[p].pc = "written"

\* A RegisterService call holds the lock while a probe's request is
\* outstanding.
C21_Witness ==
    \E p \in ProbeIds, r \in CallIds : probe[p].pc = "http" /\ mu = CallHolder(r)

\* C22: goroutines of a cycle exist only while checkAllServices waits for
\* them, the wait ends only when every one of them has completed, and the
\* loop takes a tick only when none is left.
C22_OneCycleInFlight ==
    [][/\ (\E n \in Names : probe[CycProbe(n)].pc # "none") => loop = "wait"
       /\ (loop = "wait" /\ loop' # "wait") => \A n \in Names : probe[CycProbe(n)].pc \in {"none", "done"}
       /\ (loop = "select" /\ loop' = "tick") => \A n \in Names : probe[CycProbe(n)].pc = "none"]_vars

\* The second cycle waits for a probe whose request is outstanding.
C22_Witness ==
    /\ ticks = 2
    /\ ~tickPending
    /\ loop = "wait"
    /\ \E n \in Names : probe[CycProbe(n)].pc = "http"

\* C25: the step in which a probe records its result changes the Status and
\* LastChecked of the entry it probed and nothing else: not that entry's Name,
\* URL, TrustLevel, Endpoints or Metadata, no other entry, not the map.
C25_ProbeWritesHealthOnly ==
    [][\A p \in ProbeIds :
         (probe[p].pc = "http" /\ probe'[p].pc = "written")
         => /\ services' = services
            /\ \A o \in CallIds : o # probe[p].obj => heap'[o] = heap[o]
            /\ heap'[probe[p].obj].Name = heap[probe[p].obj].Name
            /\ heap'[probe[p].obj].URL = heap[probe[p].obj].URL
            /\ heap'[probe[p].obj].TrustLevel = heap[probe[p].obj].TrustLevel
            /\ heap'[probe[p].obj].Endpoints = heap[probe[p].obj].Endpoints
            /\ heap'[probe[p].obj].Metadata = heap[probe[p].obj].Metadata]_vars

\* A probe has recorded its result on an entry with endpoints and metadata
\* while a second service is registered.
C25_Witness ==
    \E p \in ProbeIds :
        /\ probe[p].pc = "written"
        /\ heap[probe[p].obj].Endpoints = EpAudit
        /\ heap[probe[p].obj].TrustLevel = 75
        /\ Cardinality(Registered) = 2

\* C26: a probe records its result on the entry registered under the probed
\* name at that moment, also when the name was registered again while the
\* request was outstanding.
C26_ResultOnCurrentEntry ==
    [][\A p \in ProbeIds :
         (probe[p].pc = "http" /\ probe'[p].pc = "written")
         => probe[p].obj = services[probe[p].name]]_vars

\* C27: of two overlapping probes of one service, started by two successive
\* registrations, the older one does not change the health once the newer
\* one has completed: the stored health stays the newer probe's result.
C27_NewerProbeWins ==
    [][\A r1, r2 \in CallIds :
         (/\ r1 < r2
          /\ heap[r2].Name \in Names
          /\ lastReg[heap[r2].Name] = r2
          /\ services[heap[r2].Name] = r2
          /\ probe[RegProbe(r1)].name = heap[r2].Name
          /\ probe[RegProbe(r1)].obj = r2
          /\ probe[RegProbe(r1)].pc = "http"
          /\ probe'[RegProbe(r1)].pc = "written"
          /\ probe[RegProbe(r2)].pc = "done")
         => heap'[r2].Status = heap[r2].Status]_vars

\* C28: an entry ListHealthyServices returns has been written by a probe
\* since it was registered; a Status supplied with the registration does not
\* put an entry into the list.
C28_HealthyOnlyByProbe ==
    mu = NoHolder =>
        \A ord \in Orders(Registered) :
            \A i \in 1..Len(ListHealthyServices(ord)) : heap[ListHealthyServices(ord)[i]].LastChecked # 0

\* C29: no probe writes the Status and LastChecked of an entry while a
\* handler, holding no lock, is encoding that entry.
C29_NoReadDuringProbeWrite ==
    [][\A p \in ProbeIds :
         (probe[p].pc = "http" /\ probe'[p].pc = "written")
         => ~(handler.pc = "encode" /\ probe[p].obj \in handler.ptrs)]_vars

\* C23: every probe that has been started comes to record "healthy" or
\* "unhealthy" with a LastChecked on the entry it probes, whether or not the
\* context is cancelled meanwhile.
C23_ProbeCompletes ==
    \A p \in ProbeIds :
        (probe[p].pc = "spawned")
        ~> (/\ probe[p].pc = "written"
            /\ heap[probe[p].obj].Status \in {"healthy", "unhealthy"}
            /\ heap[probe[p].obj].LastChecked # 0)

\* After the context was cancelled a probe whose request failed has recorded
\* "unhealthy".
C23_Witness ==
    /\ ctxDone
    /\ \E p \in ProbeIds :
         /\ probe[p].pc = "written"
         /\ probe[p].out = 0
         /\ heap[probe[p].obj].Status = "unhealthy"
         /\ heap[probe[p].obj].LastChecked # 0

\* C24: a tick delivered while the loop runs is taken unless the context is
\* cancelled; the cycle it starts has one probe for every service registered
\* at its start and for no other; and the health of every registered service
\* comes to be "healthy" or "unhealthy".
C24_EveryServiceProbed ==
    /\ [][(loop = "tick" /\ loop' = "wait")
          => \A n \in Names : (services[n] # NilPtr) <=> (probe'[CycProbe(n)].pc = "spawned")]_vars
    /\ (tickPending /\ ~ctxDone) ~> (~tickPending \/ ctxDone)
    /\ \A n \in Names :
         (services[n] # NilPtr)
         ~> (services[n] # NilPtr /\ heap[services[n]].Status \in {"healthy", "unhealthy"})

\* A cycle has started with a probe for each of two registered services.
C24_Witness ==
    /\ loop = "wait"
    /\ ~ctxDone
    /\ Cardinality(Registered) = 2
    /\ \A n \in Registered : probe[CycProbe(n)].pc # "none"

\* C30: whoever holds sr.mu releases it, every goroutine that waits for it
\* gets it and finishes, and the loop goroutine gets its read lock.
C30_LockAlwaysReleased ==
    /\ (mu # NoHolder) ~> (mu = NoHolder)
    /\ \A p \in ProbeIds : (probe[p].pc \in {"spawned", "http", "written"}) ~> (probe[p].pc = "done")
    /\ (loop = "tick") ~> (loop = "wait")

\* A call has returned its validation error and the lock is free while a
\* probe's request is outstanding.
C30_Witness ==
    /\ mu = NoHolder
    /\ \E r \in CallIds : call[r].pc = "returned" /\ call[r].err
    /\ \E p \in ProbeIds : probe[p].pc = "http"
====
